---- MODULE Spec2Model ----
(***************************************************************************)
(* State-machine model of src/app.py: the Streamlit page that logs a query,*)
(* retrieves documents (Cortex search with SQL CONTAINS fallback), asks the *)
(* completion endpoint for insights, logs them and records feedback.       *)
(*                                                                         *)
(* Every session.sql(...) call is one atomic step against the shared store; *)
(* the Python between two calls is folded into the step that precedes it.  *)
(* Text is a sequence of one-character strings, so that strip, join and    *)
(* CONTAINS are computed rather than assumed.                              *)
(*                                                                         *)
(* What the store and the services do is taken from their interfaces:      *)
(* QUERYID and INSIGHTID are assigned in increasing order from 1,          *)
(* CURRENT_TIMESTAMP() grows from one statement to the next, every         *)
(* statement may raise, and a Cortex answer is a list of records with      *)
(* TITLE and CONTENT.  Streamlit runs the script afresh on every click, so *)
(* no name survives from one run to the next.                              *)
(***************************************************************************)
EXTENDS Integers, Sequences, FiniteSets, TLC

\* ------------------------------------------------------------------ bounds
MaxRuns == 2          \* 'Fetch and Analyze' clicks, one session
MaxConcRuns == 2      \* 'Fetch and Analyze' clicks, two sessions together
MaxFeedback == 1      \* 'Submit Feedback' clicks
MaxConcAnswer == 1    \* rows of a Cortex answer, two sessions

\* --------------------------------------------------------- program constants
NUM_CHUNKS == 3
DEFAULT_USER_ID == 1
None == -1

SessionIds == {1, 2}

\* ------------------------------------------------------------------- text
IsSpace(c) == c \in {" ", "\n", "\t"}

RECURSIVE LStrip(_)
LStrip(t) == IF t = <<>> THEN <<>>
             ELSE IF IsSpace(Head(t)) THEN LStrip(Tail(t)) ELSE t

RECURSIVE RStrip(_)
RStrip(t) == IF t = <<>> THEN <<>>
             ELSE IF IsSpace(t[Len(t)]) THEN RStrip(SubSeq(t, 1, Len(t) - 1)) ELSE t

\* str.strip()
Strip(t) == RStrip(LStrip(t))

\* truth value of a str / a list
Truthy(t) == Len(t) > 0

\* truth value of an id (None and 0 are both false)
TruthyId(i) == i # None /\ i # 0

\* sep.join(parts)
RECURSIVE Join(_, _)
Join(sep, parts) ==
    IF parts = <<>> THEN <<>>
    ELSE IF Len(parts) = 1 THEN Head(parts)
    ELSE Head(parts) \o sep \o Join(sep, Tail(parts))

\* CONTAINS(content, q): q occurs in content as a substring
Contains(content, q) ==
    \E i \in 1..(Len(content) - Len(q) + 1) : SubSeq(content, i, i + Len(q) - 1) = q

\* dict.get(key, default) for the one key the page reads
GetContent(doc) == IF "CONTENT" \in DOMAIN doc THEN doc.CONTENT ELSE <<>>

\* ------------------------------------------------------- the DOCUMENTS table
DocumentsTable ==
    << [TITLE |-> "t1", CONTENT |-> <<"x", " ">>,      QUERYID |-> None],
       [TITLE |-> "t2", CONTENT |-> <<" ">>,           QUERYID |-> None],
       [TITLE |-> "t3", CONTENT |-> <<" ", "y">>,      QUERYID |-> None],
       [TITLE |-> "t4", CONTENT |-> <<"x", " ", "y">>, QUERYID |-> None] >>

RECURSIVE SelectSeq2(_, _, _)
\* the rows of tbl from index i on whose CONTENT contains q, in table order
SelectSeq2(tbl, q, i) ==
    IF i > Len(tbl) THEN <<>>
    ELSE IF Contains(tbl[i].CONTENT, q) THEN <<tbl[i]>> \o SelectSeq2(tbl, q, i + 1)
    ELSE SelectSeq2(tbl, q, i + 1)

Limit(rows, n) == SubSeq(rows, 1, IF Len(rows) < n THEN Len(rows) ELSE n)

\* SELECT TITLE, CONTENT, QUERYID ... WHERE CONTAINS(CONTENT, ?) LIMIT n
KeywordRows(q, n) == Limit(SelectSeq2(DocumentsTable, q, 1), n)

\* the fields => ARRAY['CONTENT', 'TITLE'] projection of a row
Project(row) == [TITLE |-> row.TITLE, CONTENT |-> row.CONTENT]

\* the strictly increasing index maps 1..k -> 1..m
Selections(k, m) == { g \in [1..k -> 1..m] : \A a, b \in 1..k : a < b => g[a] < g[b] }

\* the answers of snowflake.cortex.search explored: any selection of up to
\* top_k rows of the table (the relevance order is taken to be the table order)
CortexAnswers(n) ==
    UNION { { [i \in 1..k |-> Project(DocumentsTable[g[i]])] :
                g \in Selections(k, Len(DocumentsTable)) } : k \in 0..n }

\* --------------------------------------------------------------- the inputs
QueryTexts == { <<>>, <<" ">>, <<"z">> }
CustomContexts == { <<>>, <<" ", "\n">>, <<" ", "c">> }
FeedbackTexts == { <<>>, <<"f">> }
FeedbackTypes == { "Positive", "Negative", "Neutral" }

\* the texts generate_insights can return
NO_CONTEXT == "No valid context provided for generating insights."
NO_RESPONSE == "No response generated."
GEN_ERROR == "Error generating insights: e"
RESPONSE == "response"

\* ------------------------------------------------------------------- state
VARIABLES
    sessions,        \* the browser sessions running the page
    QUERIES,         \* table: rows [QUERYID, QUERYTEXT, CREATEDAT, USERID, run]
    INSIGHTS,        \* table: rows [INSIGHTID, INSIGHTTEXT, QUERYID, GENERATEDAT, run]
    FEEDBACKLOGS,    \* table: rows [FEEDBACKDETAILS, FEEDBACKTYPE, INSIGHTID, LOGGEDAT]
    clock,           \* CURRENT_TIMESTAMP() of the store
    pc,              \* per session: where the script run stands
    bound,           \* per session: the names bound in this script run
    query, custom_context, query_id, documents, context, insights,
    feedback_text, feedback_type, insight_id,
    ui,              \* per session: what this script run has put on the page
    calls,           \* per session: the external calls of this script run, in order
    run,             \* per session: number of this 'Fetch and Analyze' run (0: none)
    snap,            \* per session: table sizes when the button was clicked
    runs, fbs,       \* clicks so far that got past the input validation
    shown            \* run whose generated response the page displayed last (0: none)

store == <<QUERIES, INSIGHTS, FEEDBACKLOGS, clock>>
locals == <<bound, query, custom_context, query_id, documents, context, insights,
            feedback_text, feedback_type, insight_id>>
vars == <<sessions, QUERIES, INSIGHTS, FEEDBACKLOGS, clock, pc, bound, query,
          custom_context, query_id, documents, context, insights, feedback_text,
          feedback_type, insight_id, ui, calls, run, snap, runs, fbs, shown>>

\* one element of ui: st.error / st.warning / st.success / st.write / ...
Msg(kind, text) == [kind |-> kind, text |-> text]

\* one element of calls
Call(op, text, n, out) == [op |-> op, text |-> text, n |-> n, out |-> out,
                           insight |-> "", qid |-> None]
CallLog(text, qid, out) == [op |-> "log_insights", text |-> <<>>, n |-> 0, out |-> out,
                            insight |-> text, qid |-> qid]

Snapshot == [nq |-> Len(QUERIES), ni |-> Len(INSIGHTS), nf |-> Len(FEEDBACKLOGS)]

InitWith(S) ==
    /\ sessions = S
    /\ QUERIES = <<>> /\ INSIGHTS = <<>> /\ FEEDBACKLOGS = <<>>
    /\ clock = 0
    /\ pc = [s \in SessionIds |-> "idle"]
    /\ bound = [s \in SessionIds |-> {}]
    /\ query = [s \in SessionIds |-> <<>>]
    /\ custom_context = [s \in SessionIds |-> <<>>]
    /\ query_id = [s \in SessionIds |-> None]
    /\ documents = [s \in SessionIds |-> <<>>]
    /\ context = [s \in SessionIds |-> <<>>]
    /\ insights = [s \in SessionIds |-> ""]
    /\ feedback_text = [s \in SessionIds |-> <<>>]
    /\ feedback_type = [s \in SessionIds |-> "Positive"]
    /\ insight_id = [s \in SessionIds |-> None]
    /\ ui = [s \in SessionIds |-> <<>>]
    /\ calls = [s \in SessionIds |-> <<>>]
    /\ run = [s \in SessionIds |-> 0]
    /\ snap = [s \in SessionIds |-> [nq |-> 0, ni |-> 0, nf |-> 0]]
    /\ runs = 0 /\ fbs = 0
    /\ shown = 0

Init == InitWith({1})
InitConc == InitWith(SessionIds)

\* the script is between two runs: a button can be clicked
Ready(s) == s \in sessions /\ pc[s] \in {"idle", "done", "crashed", "fb_done"}

\* session s stands at label l of its script run
At(s, l) == s \in sessions /\ pc[s] = l

RunLimit == IF Cardinality(sessions) = 1 THEN MaxRuns ELSE MaxConcRuns

\* the Cortex answers explored: all of them for one session
Answers ==
    IF Cardinality(sessions) = 1 THEN CortexAnswers(NUM_CHUNKS)
    ELSE CortexAnswers(IF MaxConcAnswer < NUM_CHUNKS THEN MaxConcAnswer ELSE NUM_CHUNKS)

Put(f, s, v) == [f EXCEPT ![s] = v]
Show(s, msgs) == ui' = [ui EXCEPT ![s] = ui[s] \o msgs]
Record(s, c) == calls' = [calls EXCEPT ![s] = Append(calls[s], c)]
Bind(s, names) == bound' = [bound EXCEPT ![s] = bound[s] \cup names]

\* mutant of ContextOf: the contents are joined by a space
ContextOfSpaced(docs) == Join(<<" ">>, [i \in 1..Len(docs) |-> GetContent(docs[i])])

\* context = "\n".join(doc.get("CONTENT", "") for doc in documents)
ContextOf(docs) == Join(<<"\n">>, [i \in 1..Len(docs) |-> GetContent(docs[i])])

\* ------------------------------------------- 'Fetch and Analyze' (133-166)
\* mutant of CheckContext: line 156 does not test the context
CheckContextUntested(s, bnd, ctx, msgs) ==
    IF "context" \notin bnd
    THEN /\ pc' = Put(pc, s, "crashed")
         /\ Show(s, msgs \o <<Msg("exception", "NameError: name 'context' is not defined")>>)
    ELSE /\ pc' = Put(pc, s, "generate")
         /\ Show(s, msgs)

\* line 156, if context.strip(), and the else of 163-164, reached with the
\* names in bnd bound and msgs still to be shown: context is unbound when
\* log_query returned nothing (137 false), and reading it raises NameError
CheckContext(s, bnd, ctx, msgs) ==
    IF "context" \notin bnd
    THEN /\ pc' = Put(pc, s, "crashed")
         /\ Show(s, msgs \o <<Msg("exception", "NameError: name 'context' is not defined")>>)
    ELSE IF Truthy(Strip(ctx))
    THEN /\ pc' = Put(pc, s, "generate")
         /\ Show(s, msgs)
    ELSE /\ pc' = Put(pc, s, "done")
         /\ Show(s, msgs \o <<Msg("warning", "No valid context found or provided.")>>)

\* the inputs with which a click gets past the two warnings (134, 156): only
\* these runs are numbered
Validated(q, cc) == IF Truthy(cc) THEN Truthy(Strip(cc)) ELSE Truthy(q)

\* the button is clicked with the two inputs as typed: a fresh script run
ClickFetch(s, q, cc) ==
    /\ Ready(s)
    /\ runs < RunLimit
    /\ runs' = IF Validated(q, cc) THEN runs + 1 ELSE runs
    /\ run' = Put(run, s, IF Validated(q, cc) THEN runs + 1 ELSE 0)
    /\ snap' = Put(snap, s, Snapshot)
    /\ query' = Put(query, s, q)
    /\ custom_context' = Put(custom_context, s, cc)
    /\ documents' = Put(documents, s, <<>>)
    /\ insights' = Put(insights, s, "")
    /\ feedback_text' = Put(feedback_text, s, <<>>)
    /\ feedback_type' = Put(feedback_type, s, "Positive")
    /\ insight_id' = Put(insight_id, s, None)
    /\ query_id' = Put(query_id, s, None)
    /\ calls' = Put(calls, s, <<>>)
    /\ IF Truthy(q) \/ Truthy(cc)
       THEN IF ~Truthy(cc)
            THEN /\ pc' = Put(pc, s, "log_insert")
                 /\ bound' = Put(bound, s, {})
                 /\ context' = Put(context, s, <<>>)
                 /\ ui' = Put(ui, s, <<>>)
            ELSE /\ bound' = Put(bound, s, {"query_id", "context"})
                 /\ context' = Put(context, s, cc)
                 /\ IF Truthy(Strip(cc))
                    THEN pc' = Put(pc, s, "generate") /\ ui' = Put(ui, s, <<>>)
                    ELSE /\ pc' = Put(pc, s, "done")
                         /\ ui' = Put(ui, s, <<Msg("warning", "No valid context found or provided.")>>)
       ELSE /\ pc' = Put(pc, s, "done")
            /\ bound' = Put(bound, s, {})
            /\ context' = Put(context, s, <<>>)
            /\ ui' = Put(ui, s, <<Msg("warning", "Please enter a query or input your own context.")>>)
    /\ UNCHANGED <<sessions, store, fbs, shown>>

\* once log_query_and_get_query_id has returned qid: line 137, then either the
\* retrieval or, with nothing retrieved and context never assigned, line 156
AfterLogQuery(s, qid, bnd, msgs) ==
    IF TruthyId(qid)
    THEN /\ pc' = Put(pc, s, "cortex")
         /\ Show(s, msgs)
    ELSE CheckContext(s, bnd, context[s], msgs)

\* log_query_and_get_query_id, the INSERT (95) and its except clause (104-106)
LogQueryInsert(s) ==
    /\ At(s, "log_insert")
    /\ \E out \in {"ok", "raise"} :
        /\ Record(s, Call("log_query", query[s], DEFAULT_USER_ID, out))
        /\ IF out = "ok"
           THEN /\ QUERIES' = Append(QUERIES,
                        [QUERYID |-> Len(QUERIES) + 1, QUERYTEXT |-> query[s],
                         CREATEDAT |-> clock + 1, USERID |-> DEFAULT_USER_ID,
                         run |-> run[s]])
                /\ clock' = clock + 1
                /\ pc' = Put(pc, s, "log_select")
                /\ UNCHANGED <<ui, bound, query_id>>
           ELSE /\ query_id' = Put(query_id, s, None)
                /\ Bind(s, {"query_id"})
                /\ AfterLogQuery(s, None, bound[s] \cup {"query_id"},
                                 <<Msg("error", "Error logging query")>>)
                /\ UNCHANGED <<QUERIES, clock>>
    /\ UNCHANGED <<sessions, INSIGHTS, FEEDBACKLOGS, query, custom_context, documents,
                   context, insights, feedback_text, feedback_type, insight_id, run,
                   snap, runs, fbs, shown>>

\* SELECT MAX(QUERYID) ... WHERE QUERYTEXT = ? AND USERID = ? (97-100)
MaxQueryId(text, user) ==
    LET ids == { QUERIES[i].QUERYID : i \in { j \in 1..Len(QUERIES) :
                     QUERIES[j].QUERYTEXT = text /\ QUERIES[j].USERID = user } }
    IN  IF ids = {} THEN None ELSE CHOOSE m \in ids : \A x \in ids : x <= m

\* log_query_and_get_query_id, the re-select (102-103) and the except clause
LogQuerySelect(s) ==
    /\ At(s, "log_select")
    /\ \E out \in {"ok", "raise"} :
        LET qid == IF out = "ok" THEN MaxQueryId(query[s], DEFAULT_USER_ID) ELSE None
        IN  /\ Record(s, Call("select_query_id", query[s], DEFAULT_USER_ID, out))
            /\ query_id' = Put(query_id, s, qid)
            /\ Bind(s, {"query_id"})
            /\ AfterLogQuery(s, qid, bound[s] \cup {"query_id"},
                             IF out = "ok" THEN <<>>
                             ELSE <<Msg("error", "Error logging query")>>)
    /\ UNCHANGED <<sessions, store, query, custom_context, documents, context, insights,
                   feedback_text, feedback_type, insight_id, run, snap, runs, fbs, shown>>

\* lines 145-150: show the documents and build the context, or context = "";
\* then line 156
UseDocuments(s, docs, msgs) ==
    LET ctx == IF Truthy(docs) THEN ContextOf(docs) ELSE <<>>
    IN  /\ documents' = Put(documents, s, docs)
        /\ context' = Put(context, s, ctx)
        /\ Bind(s, {"documents", "context"})
        /\ CheckContext(s, bound[s] \cup {"documents", "context"}, ctx,
                        msgs \o (IF Truthy(docs)
                                 THEN <<Msg("markdown", "### Retrieved Documents"),
                                        Msg("json", "documents")>>
                                 ELSE <<>>))

\* what fetch_documents_cortex returns for the outcome of its call (40-43)
CortexResult(out, rows) == IF out = "raise" THEN <<>> ELSE rows

\* mutant of NeedsFallback: an empty Cortex answer is taken as the result
NeedsFallbackNever(docs) == FALSE

\* line 141, if not documents: whether the handler falls back to the SQL search
NeedsFallback(docs) == ~Truthy(docs)

\* fetch_documents_cortex (26-43) and lines 140-141
FetchCortex(s) ==
    /\ At(s, "cortex")
    /\ \E out \in {"ok", "raise"} : \E rows \in Answers :
        LET docs == CortexResult(out, rows)
        IN  /\ out = "raise" => rows = <<>>
            /\ Record(s, Call("cortex", query[s], NUM_CHUNKS,
                              IF out = "raise" THEN "raise"
                              ELSE IF rows = <<>> THEN "empty" ELSE "rows"))
            /\ IF NeedsFallback(docs)
               THEN /\ documents' = Put(documents, s, docs)
                    /\ Bind(s, {"documents"})
                    /\ pc' = Put(pc, s, "sql")
                    /\ UNCHANGED <<context, ui>>
               ELSE UseDocuments(s, docs, <<>>)
    /\ UNCHANGED <<sessions, store, query, custom_context, query_id, insights,
                   feedback_text, feedback_type, insight_id, run, snap, runs, fbs, shown>>

\* fetch_documents_sql (46-61) and line 143
FetchSql(s) ==
    /\ At(s, "sql")
    /\ \E out \in {"ok", "raise"} :
        /\ Record(s, Call("sql", query[s], NUM_CHUNKS, out))
        /\ IF out = "ok"
           THEN UseDocuments(s, KeywordRows(query[s], NUM_CHUNKS), <<>>)
           ELSE UseDocuments(s, <<>>,
                    <<Msg("error", "Error fetching documents using SQL search")>>)
    /\ UNCHANGED <<sessions, store, query, custom_context, query_id, insights,
                   feedback_text, feedback_type, insight_id, run, snap, runs, fbs, shown>>

\* mutant of GenOutcomes: line 68 is missing, the endpoint is always called
GenOutcomesUnguarded(c) == {"response", "empty", "raise"}

\* generate_insights: line 68 short-circuits, otherwise the endpoint answers,
\* answers nothing, or raises
GenOutcomes(c) == IF ~Truthy(Strip(c)) THEN {"skip"} ELSE {"response", "empty", "raise"}

\* the text generate_insights returns (69, 81, 83)
GenResult(out) ==
    CASE out = "skip"     -> NO_CONTEXT
      [] out = "response" -> RESPONSE
      [] out = "empty"    -> NO_RESPONSE
      [] out = "raise"    -> GEN_ERROR

\* generate_insights(c) with outcome out: the call it makes and what it returns
GenerateInsights(s, c, out) ==
    /\ insights' = Put(insights, s, GenResult(out))
    /\ IF out = "skip" THEN UNCHANGED calls
       ELSE Record(s, Call("complete", c, 0, out))

\* mutant of AfterGenerate: the insights are logged whatever query_id is
AfterGenerateAlways(qid, text) == "log_insights"

\* where the handler goes after displaying the insights (161)
AfterGenerate(qid, text) == IF TruthyId(qid) THEN "log_insights" ELSE "done"

\* lines 157-161: generate, display, decide whether to log
Generate(s) ==
    /\ At(s, "generate")
    /\ \E out \in GenOutcomes(context[s]) :
        /\ GenerateInsights(s, context[s], out)
        /\ Bind(s, {"insights"})
        /\ Show(s, <<Msg("markdown", "### Generated Insights"),
                     Msg("write", GenResult(out))>>)
        /\ shown' = IF out = "response" THEN run[s] ELSE shown
        /\ pc' = Put(pc, s, AfterGenerate(query_id[s], GenResult(out)))
    /\ UNCHANGED <<sessions, store, query, custom_context, query_id, documents, context,
                   feedback_text, feedback_type, insight_id, run, snap, runs, fbs>>

\* log_insights (109-122)
LogInsights(s) ==
    /\ At(s, "log_insights")
    /\ \E out \in {"ok", "raise"} :
        /\ Record(s, CallLog(insights[s], query_id[s], out))
        /\ IF out = "ok"
           THEN /\ INSIGHTS' = Append(INSIGHTS,
                        [INSIGHTID |-> Len(INSIGHTS) + 1, INSIGHTTEXT |-> insights[s],
                         QUERYID |-> query_id[s], GENERATEDAT |-> clock + 1,
                         run |-> run[s]])
                /\ clock' = clock + 1
                /\ Show(s, <<Msg("success", "Insights logged successfully!")>>)
           ELSE /\ Show(s, <<Msg("error", "Error logging insights")>>)
                /\ UNCHANGED <<INSIGHTS, clock>>
    /\ pc' = Put(pc, s, "done")
    /\ UNCHANGED <<sessions, QUERIES, FEEDBACKLOGS, locals, run, snap, runs, fbs, shown>>

\* --------------------------------------------- 'Submit Feedback' (169-188)
\* (the handler reads neither the query nor the custom context: they are
\* cleared here, as the feedback inputs are by ClickFetch)
ClickFeedback(s, t, ty) ==
    /\ Ready(s)
    /\ fbs < MaxFeedback
    /\ fbs' = IF Truthy(t) THEN fbs + 1 ELSE fbs
    /\ snap' = Put(snap, s, Snapshot)
    /\ feedback_text' = Put(feedback_text, s, t)
    /\ feedback_type' = Put(feedback_type, s, ty)
    /\ insight_id' = Put(insight_id, s, None)
    /\ bound' = Put(bound, s, {})
    /\ query' = Put(query, s, <<>>)
    /\ custom_context' = Put(custom_context, s, <<>>)
    /\ query_id' = Put(query_id, s, None)
    /\ documents' = Put(documents, s, <<>>)
    /\ context' = Put(context, s, <<>>)
    /\ insights' = Put(insights, s, "")
    /\ calls' = Put(calls, s, <<>>)
    /\ IF Truthy(t)
       THEN /\ pc' = Put(pc, s, "fb_select")
            /\ ui' = Put(ui, s, <<>>)
       ELSE /\ pc' = Put(pc, s, "fb_done")
            /\ ui' = Put(ui, s, <<Msg("warning", "Please provide feedback before submitting.")>>)
    /\ UNCHANGED <<sessions, store, run, runs, shown>>

\* mutant of LatestInsightIds: no row yields None instead of an IndexError
LatestInsightIdsOrNone ==
    IF INSIGHTS = <<>> THEN {None}
    ELSE { INSIGHTS[i].INSIGHTID : i \in { j \in 1..Len(INSIGHTS) :
             \A k \in 1..Len(INSIGHTS) : INSIGHTS[k].GENERATEDAT <= INSIGHTS[j].GENERATEDAT } }

\* SELECT INSIGHTID FROM INSIGHTS ORDER BY GENERATEDAT DESC LIMIT 1 (174-176):
\* the ids of the rows the statement may return
LatestInsightIds ==
    { INSIGHTS[i].INSIGHTID : i \in { j \in 1..Len(INSIGHTS) :
          \A k \in 1..Len(INSIGHTS) : INSIGHTS[k].GENERATEDAT <= INSIGHTS[j].GENERATEDAT } }

\* the select and .collect()[0]["INSIGHTID"] (174-177), IndexError on no row
FeedbackSelect(s) ==
    /\ At(s, "fb_select")
    /\ \E out \in {"ok", "raise"} :
        /\ Record(s, Call("select_insight_id", <<>>, 0, out))
        /\ IF out = "ok" /\ LatestInsightIds # {}
           THEN /\ \E id \in LatestInsightIds : insight_id' = Put(insight_id, s, id)
                /\ Bind(s, {"insight_id"})
                /\ pc' = Put(pc, s, "fb_insert")
                /\ UNCHANGED ui
           ELSE /\ Show(s, <<Msg("error", "Error submitting feedback")>>)
                /\ pc' = Put(pc, s, "fb_done")
                /\ UNCHANGED <<insight_id, bound>>
    /\ UNCHANGED <<sessions, store, query, custom_context, query_id, documents, context,
                   insights, feedback_text, feedback_type, run, snap, runs, fbs, shown>>

\* the INSERT into FEEDBACKLOGS (178-186)
FeedbackInsert(s) ==
    /\ At(s, "fb_insert")
    /\ \E out \in {"ok", "raise"} :
        /\ Record(s, Call("insert_feedback", feedback_text[s], 0, out))
        /\ IF out = "ok"
           THEN /\ FEEDBACKLOGS' = Append(FEEDBACKLOGS,
                        [FEEDBACKDETAILS |-> feedback_text[s],
                         FEEDBACKTYPE |-> feedback_type[s],
                         INSIGHTID |-> insight_id[s], LOGGEDAT |-> clock + 1])
                /\ clock' = clock + 1
                /\ Show(s, <<Msg("success", "Feedback submitted successfully!")>>)
           ELSE /\ Show(s, <<Msg("error", "Error submitting feedback")>>)
                /\ UNCHANGED <<FEEDBACKLOGS, clock>>
    /\ pc' = Put(pc, s, "fb_done")
    /\ UNCHANGED <<sessions, QUERIES, INSIGHTS, locals, run, snap, runs, fbs, shown>>

\* ------------------------------------------------------------ specifications
Next ==
    \/ \E s \in SessionIds, q \in QueryTexts, cc \in CustomContexts : ClickFetch(s, q, cc)
    \/ \E s \in SessionIds : LogQueryInsert(s)
    \/ \E s \in SessionIds : LogQuerySelect(s)
    \/ \E s \in SessionIds : FetchCortex(s)
    \/ \E s \in SessionIds : FetchSql(s)
    \/ \E s \in SessionIds : Generate(s)
    \/ \E s \in SessionIds : LogInsights(s)
    \/ \E s \in SessionIds, t \in FeedbackTexts, ty \in FeedbackTypes : ClickFeedback(s, t, ty)
    \/ \E s \in SessionIds : FeedbackSelect(s)
    \/ \E s \in SessionIds : FeedbackInsert(s)

\* one session
Spec == Init /\ [][Next]_vars

\* the 'Fetch and Analyze' steps alone
NextFetch ==
    \/ \E s \in SessionIds, q \in QueryTexts, cc \in CustomContexts : ClickFetch(s, q, cc)
    \/ \E s \in SessionIds : LogQueryInsert(s)
    \/ \E s \in SessionIds : LogQuerySelect(s)
    \/ \E s \in SessionIds : FetchCortex(s)
    \/ \E s \in SessionIds : FetchSql(s)
    \/ \E s \in SessionIds : Generate(s)
    \/ \E s \in SessionIds : LogInsights(s)

\* generate_insights called on its own, as a unit test calls it
\* (spec.md section 8, property 3): any short text as the context
UnitContexts ==
    { <<>> } \cup { <<a>> : a \in {"a", " ", "\n"} }
             \cup { <<a, b>> : a \in {"a", " ", "\n"}, b \in {"a", " ", "\n"} }

InitGen ==
    /\ sessions = {1}
    /\ QUERIES = <<>> /\ INSIGHTS = <<>> /\ FEEDBACKLOGS = <<>>
    /\ clock = 0
    /\ pc = [s \in SessionIds |-> IF s = 1 THEN "unit_generate" ELSE "idle"]
    /\ bound = [s \in SessionIds |-> IF s = 1 THEN {"context"} ELSE {}]
    /\ query = [s \in SessionIds |-> <<>>]
    /\ custom_context = [s \in SessionIds |-> <<>>]
    /\ query_id = [s \in SessionIds |-> None]
    /\ documents = [s \in SessionIds |-> <<>>]
    /\ \E c \in UnitContexts : context = [s \in SessionIds |-> IF s = 1 THEN c ELSE <<>>]
    /\ insights = [s \in SessionIds |-> ""]
    /\ feedback_text = [s \in SessionIds |-> <<>>]
    /\ feedback_type = [s \in SessionIds |-> "Positive"]
    /\ insight_id = [s \in SessionIds |-> None]
    /\ ui = [s \in SessionIds |-> <<>>]
    /\ calls = [s \in SessionIds |-> <<>>]
    /\ run = [s \in SessionIds |-> 0]
    /\ snap = [s \in SessionIds |-> [nq |-> 0, ni |-> 0, nf |-> 0]]
    /\ runs = 0 /\ fbs = 0
    /\ shown = 0

\* the direct call returns to its caller
UnitGenerate(s) ==
    /\ At(s, "unit_generate")
    /\ \E out \in GenOutcomes(context[s]) : GenerateInsights(s, context[s], out)
    /\ Bind(s, {"insights"})
    /\ pc' = Put(pc, s, "unit_done")
    /\ UNCHANGED <<sessions, store, query, custom_context, query_id, documents, context,
                   feedback_text, feedback_type, insight_id, ui, run, snap, runs, fbs,
                   shown>>

\* one session running the page, or one direct call of generate_insights
SpecGen == (Init \/ InitGen) /\ [][Next \/ \E s \in SessionIds : UnitGenerate(s)]_vars

\* two sessions running 'Fetch and Analyze' against the shared store
SpecConc == InitConc /\ [][NextFetch]_vars

\* ------------------------------------------------------- reading a script run
Ops(s) == [i \in 1..Len(calls[s]) |-> calls[s][i].op]
CallsOf(s, op) == { i \in 1..Len(calls[s]) : calls[s][i].op = op }
Shows(s, kind, text) == \E i \in 1..Len(ui[s]) : ui[s][i] = Msg(kind, text)

\* log_query_and_get_query_id has returned without an id in this run
LogQueryFailed(s) ==
    /\ s \in sessions
    /\ CallsOf(s, "log_query") # {}
    /\ "query_id" \in bound[s]
    /\ ~TruthyId(query_id[s])

\* ------------------------------------------------------------------- claims

\* C1: a run with a non-empty query and no custom context in which log_query
\* fails shows the error, runs none of the later steps (search, generation,
\* insight logging) and ends normally: no exception escapes the handler.
C1_LogFailureEndsNormally ==
    \A s \in SessionIds :
        (LogQueryFailed(s) /\ Truthy(query[s]) /\ ~Truthy(custom_context[s])) =>
            /\ Shows(s, "error", "Error logging query")
            /\ \A i \in 1..Len(calls[s]) :
                   calls[s][i].op \in {"log_query", "select_query_id"}
            /\ pc[s] = "done"
            /\ ~\E i \in 1..Len(ui[s]) : ui[s][i].kind = "exception"

\* C2: when the Cortex search raises or answers nothing, the SQL search is
\* called exactly once, right after it, with the same query text and the same
\* limit NUM_CHUNKS = 3, its result is the documents of the run and nothing
\* about the Cortex failure is shown; when the Cortex search answers rows, the
\* SQL search is not called.
C2_SilentFallback ==
    \A s \in SessionIds : \A i \in CallsOf(s, "cortex") :
        LET c == calls[s][i]
        IN  /\ CallsOf(s, "cortex") = {i}
            /\ c.text = query[s] /\ c.n = 3
            /\ IF c.out \in {"raise", "empty"}
               THEN \/ /\ pc[s] = "sql"
                       /\ CallsOf(s, "sql") = {}
                       /\ ui[s] = <<>>
                    \/ /\ pc[s] # "sql"
                       /\ CallsOf(s, "sql") = {i + 1}
                       /\ calls[s][i + 1].text = c.text
                       /\ calls[s][i + 1].n = c.n
                       /\ documents[s] = IF calls[s][i + 1].out = "ok"
                                         THEN KeywordRows(c.text, 3) ELSE <<>>
                       /\ \A k \in 1..Len(ui[s]) : ui[s][k].kind = "error" =>
                              ui[s][k].text \in {"Error fetching documents using SQL search",
                                                 "Error logging insights"}
               ELSE /\ CallsOf(s, "sql") = {}
                    /\ pc[s] # "sql"
                    /\ Truthy(documents[s])

\* C2 witness: the Cortex search raised, the SQL search answered and its rows
\* are the documents of the run
C2_Witness ==
    \E i \in CallsOf(1, "cortex") :
        /\ calls[1][i].out = "raise"
        /\ CallsOf(1, "sql") = {i + 1}
        /\ calls[1][i + 1].out = "ok"
        /\ Len(documents[1]) = 3
        /\ pc[1] = "done"

\* C3: when the completion call fails, the error text is displayed in place of
\* the insight and nothing is logged for the run: every INSIGHTS row holds the
\* text of a successful generation.
C3_NoInsightRowOnFailure ==
    /\ \A s \in SessionIds : \A i \in CallsOf(s, "complete") :
           calls[s][i].out = "raise" =>
               /\ Shows(s, "write", GEN_ERROR)
               /\ \A k \in 1..Len(INSIGHTS) : INSIGHTS[k].run # run[s]
    /\ \A k \in 1..Len(INSIGHTS) : INSIGHTS[k].INSIGHTTEXT # GEN_ERROR

\* ---- C4
\* the run of s took the custom-context branch (151-154)
CustomRun(s) ==
    /\ s \in sessions
    /\ pc[s] \in {"generate", "log_insights", "done", "crashed"}
    /\ Truthy(custom_context[s])

\* the part of C4 that holds for every custom context: nothing is logged or
\* searched and query_id is None
CustomFrame(s) ==
    /\ Len(QUERIES) = snap[s].nq
    /\ Len(INSIGHTS) = snap[s].ni
    /\ Len(FEEDBACKLOGS) = snap[s].nf
    /\ query_id[s] = None
    /\ \A i \in 1..Len(calls[s]) : calls[s][i].op = "complete"
    /\ pc[s] \notin {"log_insights", "crashed"}

\* generation ran once on the custom context as typed and its result is shown
CustomGenerated(s) ==
    /\ Len(calls[s]) = 1
    /\ calls[s][1].op = "complete"
    /\ calls[s][1].text = custom_context[s]
    /\ ui[s] = <<Msg("markdown", "### Generated Insights"),
                 Msg("write", GenResult(calls[s][1].out))>>

\* C4 as claimed: whenever custom context is present, no Query row is inserted,
\* no search is issued, query_id is None, generation is invoked with the custom
\* context verbatim, the result is displayed, log_insights is not invoked, and
\* QUERIES and INSIGHTS are unchanged by the run.
C4_Original ==
    \A s \in SessionIds :
        CustomRun(s) => /\ CustomFrame(s)
                        /\ pc[s] = "done" => CustomGenerated(s)

\* C4 as amended: the same, with generation invoked (and its result displayed)
\* exactly when the custom context is not whitespace-only; a whitespace-only
\* custom context ends the run with the 'no valid context' warning and no
\* generation.
C4_Amended ==
    \A s \in SessionIds :
        CustomRun(s) =>
            /\ CustomFrame(s)
            /\ pc[s] = "done" =>
                  IF custom_context[s] \in { <<" ">>, <<"\n">>, <<" ", "\n">>, <<"\n", " ">> }
                  THEN /\ calls[s] = <<>>
                       /\ ui[s] = <<Msg("warning", "No valid context found or provided.")>>
                  ELSE CustomGenerated(s)

\* C4 witness: a custom-context run, typed together with a query and after an
\* earlier run that logged an insight, has generated and ended
C4_Witness ==
    /\ pc[1] = "done"
    /\ custom_context[1] = <<" ", "c">>
    /\ Truthy(query[1])
    /\ Len(INSIGHTS) = 1
    /\ Len(calls[1]) = 1
    /\ calls[1][1].out = "response"

\* ---- C5
\* the run of s ended after a successful log_query and a non-empty retrieval
QueryRunWithDocuments(s) ==
    /\ s \in sessions
    /\ pc[s] = "done"
    /\ ~Truthy(custom_context[s])
    /\ Truthy(query[s])
    /\ TruthyId(query_id[s])
    /\ Truthy(documents[s])

\* the CONTENT values of at most three documents joined by newline, in order
JoinedContents(d) ==
    IF Len(d) = 1 THEN d[1].CONTENT
    ELSE IF Len(d) = 2 THEN d[1].CONTENT \o <<"\n">> \o d[2].CONTENT
    ELSE d[1].CONTENT \o <<"\n">> \o d[2].CONTENT \o <<"\n">> \o d[3].CONTENT

\* log_query, fetch, generate, log_insights ran in this order, once each, on
\* the joined contents and with the id log_query returned
FullPipeline(s) ==
    LET n == Len(calls[s])
    IN  /\ Ops(s) \in { <<"log_query", "select_query_id", "cortex", "complete", "log_insights">>,
                        <<"log_query", "select_query_id", "cortex", "sql", "complete",
                          "log_insights">> }
        /\ calls[s][n - 1].text = JoinedContents(documents[s])
        /\ context[s] = JoinedContents(documents[s])
        /\ calls[s][n].insight = GenResult(calls[s][n - 1].out)
        /\ calls[s][n].insight = insights[s]
        /\ calls[s][n].qid = query_id[s]
        /\ query_id[s] # None
        /\ \E k \in 1..Len(QUERIES) :
               QUERIES[k].QUERYID = query_id[s] /\ QUERIES[k].run = run[s]

\* C5 as claimed: with a non-empty query, no custom context, a successful query
\* log and a non-empty retrieval result, the steps log_query, fetch, generate,
\* log_insights occur in this order, once each; generate gets the documents'
\* CONTENT joined by newline and log_insights gets the generated text and the
\* query id of this run.
C5_Original == \A s \in SessionIds : QueryRunWithDocuments(s) => FullPipeline(s)

\* C5 as amended: the same, for a retrieval result whose joined CONTENT is not
\* whitespace-only (otherwise the run ends with the warning before generate).
C5_Amended ==
    \A s \in SessionIds :
        (QueryRunWithDocuments(s)
            /\ \E i \in 1..Len(documents[s]) : \E j \in 1..Len(documents[s][i].CONTENT) :
                   ~IsSpace(documents[s][i].CONTENT[j]))
        => FullPipeline(s)

\* C5 witness: a run that retrieved two documents from Cortex, generated and
\* logged the insight
C5_Witness ==
    /\ QueryRunWithDocuments(1)
    /\ Len(documents[1]) = 2
    /\ documents[1][1].CONTENT # documents[1][2].CONTENT
    /\ CallsOf(1, "sql") = {}
    /\ Len(INSIGHTS) = 1
    /\ INSIGHTS[1].INSIGHTTEXT = RESPONSE

\* ---- C6
\* both searches of the run of s raised
BothSearchesFailed(s) ==
    /\ s \in sessions
    /\ pc[s] \in {"generate", "log_insights", "done", "crashed"}
    /\ \E i \in CallsOf(s, "cortex") : calls[s][i].out = "raise"
    /\ \E i \in CallsOf(s, "sql") : calls[s][i].out = "raise"

\* the context is empty, generation is skipped and no INSIGHTS row is written
NoGeneration(s) ==
    /\ pc[s] = "done"
    /\ context[s] = <<>>
    /\ CallsOf(s, "complete") = {}
    /\ CallsOf(s, "log_insights") = {}
    /\ Len(INSIGHTS) = snap[s].ni

\* C6 as claimed: when both searches fail the context is the empty string,
\* generation is skipped (no completion call, no INSIGHTS row) and a warning is
\* the only thing the run shows.
C6_Original ==
    \A s \in SessionIds :
        BothSearchesFailed(s) =>
            /\ NoGeneration(s)
            /\ ui[s] = <<Msg("warning", "No valid context found or provided.")>>

\* C6 as amended: the same, except that the run shows the SQL search's error
\* and then the warning.
C6_Amended ==
    \A s \in SessionIds :
        BothSearchesFailed(s) =>
            /\ NoGeneration(s)
            /\ ui[s] = <<Msg("error", "Error fetching documents using SQL search"),
                         Msg("warning", "No valid context found or provided.")>>

\* C6 witness: a run in which both searches raised has ended
C6_Witness == BothSearchesFailed(1) /\ pc[1] = "done" /\ Len(QUERIES) = snap[1].nq + 1

\* ---- C7
\* the feedback run of s has inserted its row
FeedbackSubmitted(s) ==
    /\ s \in sessions
    /\ pc[s] = "fb_done"
    /\ Shows(s, "success", "Feedback submitted successfully!")

\* C7: a successful feedback submission made after a run that generated and
\* displayed an insight (on the query path or on the custom-context path)
\* creates a FEEDBACKLOGS row whose INSIGHTID is that of the insight generated
\* by that run, the one generated last.
C7_FeedbackOnLastShown ==
    \A s \in SessionIds :
        (FeedbackSubmitted(s) /\ shown # 0) =>
            \E k \in 1..Len(INSIGHTS) :
                /\ INSIGHTS[k].INSIGHTID = FEEDBACKLOGS[Len(FEEDBACKLOGS)].INSIGHTID
                /\ INSIGHTS[k].run = shown

\* ---- C8
\* C8: every FEEDBACKLOGS row holds the id of an INSIGHTS row that was in the
\* store when the feedback was submitted; and non-empty feedback submitted
\* while INSIGHTS is empty shows an error and leaves FEEDBACKLOGS unchanged.
C8_FeedbackReferencesInsight ==
    /\ \A f \in 1..Len(FEEDBACKLOGS) : \E k \in 1..Len(INSIGHTS) :
           /\ INSIGHTS[k].INSIGHTID = FEEDBACKLOGS[f].INSIGHTID
           /\ INSIGHTS[k].GENERATEDAT < FEEDBACKLOGS[f].LOGGEDAT
    /\ \A s \in SessionIds :
           (s \in sessions /\ pc[s] = "fb_done" /\ Truthy(feedback_text[s])
                /\ snap[s].ni = 0) =>
               /\ Shows(s, "error", "Error submitting feedback")
               /\ ~Shows(s, "success", "Feedback submitted successfully!")
               /\ Len(FEEDBACKLOGS) = snap[s].nf

\* C8 witness: feedback submitted after a run logged an insight is stored
\* against that insight
C8_Witness ==
    /\ Len(FEEDBACKLOGS) = 1
    /\ Len(INSIGHTS) = 1
    /\ FeedbackSubmitted(1)

\* the other case of C8 is reached too: the select answered no row and the
\* feedback was refused
C8_Refused ==
    /\ pc[1] = "fb_done" /\ Truthy(feedback_text[1]) /\ INSIGHTS = <<>>
    /\ \E i \in 1..Len(calls[1]) : calls[1][i].out = "ok"

\* ---- C9
\* C9: every INSIGHTS row holds the id of the QUERIES row its own run inserted,
\* so rows of different runs never share a QUERYID, whatever the interleaving
\* of the insert and the MAX(QUERYID) re-select of two sessions.
C9_InsightLinkedToOwnQuery ==
    /\ \A k \in 1..Len(INSIGHTS) : \E q \in 1..Len(QUERIES) :
           /\ QUERIES[q].QUERYID = INSIGHTS[k].QUERYID
           /\ QUERIES[q].run = INSIGHTS[k].run
    /\ \A k, m \in 1..Len(INSIGHTS) :
           INSIGHTS[k].run # INSIGHTS[m].run => INSIGHTS[k].QUERYID # INSIGHTS[m].QUERYID

\* ---- C10
\* C10: the completion endpoint is never called with an empty or
\* whitespace-only context; a run whose assembled context is empty or
\* whitespace-only ends with the warning, without generation and without a new
\* INSIGHTS row; and generate_insights called with such a context returns the
\* 'no valid context' text without calling the endpoint.
C10_NoGenerationOnBlankContext ==
    \A s \in SessionIds :
        /\ \A i \in CallsOf(s, "complete") :
               \E j \in 1..Len(calls[s][i].text) : ~IsSpace(calls[s][i].text[j])
        /\ (s \in sessions /\ "context" \in bound[s]
               /\ \A j \in 1..Len(context[s]) : IsSpace(context[s][j])) =>
              \/ /\ pc[s] = "done"
                 /\ ui[s][Len(ui[s])] = Msg("warning", "No valid context found or provided.")
                 /\ CallsOf(s, "complete") = {}
                 /\ CallsOf(s, "log_insights") = {}
                 /\ Len(INSIGHTS) = snap[s].ni
                 /\ "insights" \notin bound[s]
              \/ /\ pc[s] = "unit_generate"
                 /\ calls[s] = <<>>
              \/ /\ pc[s] = "unit_done"
                 /\ insights[s] = NO_CONTEXT
                 /\ calls[s] = <<>>

\* C10 witness: the direct call with a whitespace-only context has returned
C10_Witness == pc[1] = "unit_done" /\ context[1] = <<" ", "\n">>

\* the page's case of C10 is reached too: documents were retrieved, their
\* contents are blank and the run has ended
C10_WitnessRun == pc[1] = "done" /\ Truthy(documents[1]) /\ context[1] = <<" ">>
====
